---- MODULE Spec2Model ----
(***************************************************************************)
(* Model of the explainable image/prompt matcher                           *)
(* (src/explainable_matcher.py): the explain_match pipeline, its prompt    *)
(* decomposition (remote LLM strategy and delimiter-split fallback), the   *)
(* per-feature scoring and the narrative builder.                          *)
(*                                                                         *)
(* Text is a sequence of one-character strings.  Real numbers are scaled   *)
(* integers: a similarity x is the integer x * Scale, a percentage p is    *)
(* the integer p * Scale.                                                  *)
(***************************************************************************)
EXTENDS Integers, Sequences, FiniteSets, TLC

VARIABLES
    client,          \* self.client is not None (OPENAI_API_KEY was set)
    pc,              \* position of explain_match
    prompt,          \* the request's prompt text
    cosine,          \* embedding provider: cosine(image, full prompt) * Scale
    original_score,  \* explain_match's local original_score, in percent * Scale
    llm,             \* what the remote decomposition call did in this request
    strategy,        \* which strategy's result decompose_prompt returned
    features,        \* the value bound to explain_match's local features
    explanation,     \* parts joined into explanation_text
    result,          \* the dict explain_match returns
    unique_index,    \* the unique index on users.login_id exists
    users,           \* the users collection, in insertion order
    matches,         \* the match_history collection
    upload_folder,   \* names of the files in the upload folder
    next_id,         \* how many ObjectIds were generated
    threads,         \* the database calls in progress, one per thread
    http_request,    \* the HTTP request the server is handling
    server_pc,       \* position of the handler of that request
    http_response,   \* the HTTP response it returned
    snapshot         \* the collections and the folder when the request came in

pipelineVars == <<client, pc, prompt, cosine, original_score, llm, strategy,
                  features, explanation, result>>
storeVars == <<unique_index, users, matches, upload_folder, next_id>>
serverVars == <<http_request, server_pc, http_response, snapshot>>

vars == <<pipelineVars, storeVars, threads, serverVars>>

---------------------------------------------------------------------------
(* Bounds of the model *)

\* longest list of features the remote provider answers with
MaxLLMItems == 2
\* longest list of features given to scoring and narration on their own
MaxFeatures == 4

\* units per 1.0 of a similarity and per 1 percent of a score
Scale == 10^5

---------------------------------------------------------------------------
(* Text *)

Whitespace == {" ", "\t", "\n"}

IsSpace(c) == c \in Whitespace

UpperCase == <<"A","B","C","D","E","F","G","H","I","J","K","L","M",
               "N","O","P","Q","R","S","T","U","V","W","X","Y","Z">>
LowerCase == <<"a","b","c","d","e","f","g","h","i","j","k","l","m",
               "n","o","p","q","r","s","t","u","v","w","x","y","z">>

\* str.lower()
Lower(s) ==
    [i \in 1..Len(s) |->
        IF \E k \in 1..Len(UpperCase) : UpperCase[k] = s[i]
        THEN LowerCase[CHOOSE k \in 1..Len(UpperCase) : UpperCase[k] = s[i]]
        ELSE s[i]]

\* str.strip(): the text without its leading and trailing whitespace
Strip(s) ==
    LET keep == {i \in 1..Len(s) : ~IsSpace(s[i])}
    IN  IF keep = {} THEN <<>>
        ELSE LET lo == CHOOSE i \in keep : \A j \in keep : i <= j
                 hi == CHOOSE i \in keep : \A j \in keep : j <= i
             IN  SubSeq(s, lo, hi)

\* s.startswith(w) at position i (1-based)
StartsWithAt(s, i, w) ==
    /\ i + Len(w) - 1 <= Len(s)
    /\ SubSeq(s, i, i + Len(w) - 1) = w

\* w in s
Contains(s, w) == \E i \in 1..(Len(s) - Len(w) + 1) : StartsWithAt(s, i, w)

\* first position >= i of s that holds no whitespace (Len(s)+1 if none)
RunEnd(s, i) ==
    LET stop == {j \in i..Len(s) : ~IsSpace(s[j])}
    IN  IF stop = {} THEN Len(s) + 1
        ELSE CHOOSE j \in stop : \A k \in stop : j <= k

Conjunctions == <<<<"a","n","d">>, <<"w","i","t","h">>>>

\* Length of the match of the pattern ,|\s+and\s+|\s+with\s+ that starts at
\* position i of s, 0 when none starts there. \s+ is greedy, so the word must
\* follow the whole run of whitespace and the match takes the whole run after it.
DelimiterAt(s, i) ==
    IF s[i] = "," THEN 1
    ELSE IF ~IsSpace(s[i]) THEN 0
    ELSE LET j == RunEnd(s, i)
             hit == {n \in 1..Len(Conjunctions) :
                        /\ StartsWithAt(s, j, Conjunctions[n])
                        /\ j + Len(Conjunctions[n]) <= Len(s)
                        /\ IsSpace(s[j + Len(Conjunctions[n])])}
         IN  IF hit = {} THEN 0
             ELSE LET n == CHOOSE n \in hit : TRUE
                  IN  RunEnd(s, j + Len(Conjunctions[n])) - i

\* re.split(r',|\s+and\s+|\s+with\s+', s) continued from position i, the current
\* chunk having started at position from: matches are found left to right and do
\* not overlap
RECURSIVE SplitFrom(_, _, _)
SplitFrom(s, from, i) ==
    IF i > Len(s) THEN <<SubSeq(s, from, Len(s))>>
    ELSE LET n == DelimiterAt(s, i)
         IN  IF n = 0 THEN SplitFrom(s, from, i + 1)
             ELSE <<SubSeq(s, from, i - 1)>> \o SplitFrom(s, i + n, i + n)

Split(s) == SplitFrom(s, 1, 1)

---------------------------------------------------------------------------
(* Delimiter-split fallback: _fallback_decomposition *)

Categories ==
    {"style", "layout", "material", "lighting", "fixtures", "photography", "general"}

StyleWords == {<<"m","o","d","e","r","n">>, <<"r","u","s","t","i","c">>, <<"m","i","n","i","m","a","l","i","s","t">>, <<"c","o","n","t","e","m","p","o","r","a","r","y">>,
               <<"t","r","a","d","i","t","i","o","n","a","l">>, <<"e","l","e","g","a","n","t">>}
MaterialWords == {<<"c","a","b","i","n","e","t">>, <<"c","o","u","n","t","e","r","t","o","p">>, <<"b","a","c","k","s","p","l","a","s","h">>, <<"w","o","o","d">>,
                  <<"m","a","r","b","l","e">>, <<"g","r","a","n","i","t","e">>, <<"s","t","o","n","e">>}
LightingWords == {<<"l","i","g","h","t">>, <<"l","i","g","h","t","i","n","g">>, <<"p","e","n","d","a","n","t">>, <<"c","h","a","n","d","e","l","i","e","r">>, <<"l","e","d">>}
LayoutWords == {<<"i","s","l","a","n","d">>, <<"l","a","y","o","u","t">>, <<"o","p","e","n"," ","c","o","n","c","e","p","t">>, <<"s","h","a","p","e","d">>}
FixtureWords == {<<"a","p","p","l","i","a","n","c","e">>, <<"s","i","n","k">>, <<"f","a","u","c","e","t">>, <<"o","v","e","n">>, <<"r","e","f","r","i","g","e","r","a","t","o","r">>}

AnyWordIn(words, s) == \E w \in words : Contains(s, w)

\* the if/elif chain over chunk.lower()
Categorize(chunk) ==
    LET chunk_lower == Lower(chunk)
    IN  IF AnyWordIn(StyleWords, chunk_lower) THEN "style"
        ELSE IF AnyWordIn(MaterialWords, chunk_lower) THEN "material"
        ELSE IF AnyWordIn(LightingWords, chunk_lower) THEN "lighting"
        ELSE IF AnyWordIn(LayoutWords, chunk_lower) THEN "layout"
        ELSE IF AnyWordIn(FixtureWords, chunk_lower) THEN "fixtures"
        ELSE "general"

\* "Ignore very short chunks"
MinChunkLen == 5

RECURSIVE FeaturesOfChunks(_)
FeaturesOfChunks(chunks) ==
    IF chunks = <<>> THEN <<>>
    ELSE LET chunk == Strip(Head(chunks))
             rest == FeaturesOfChunks(Tail(chunks))
         IN  IF Len(chunk) > MinChunkLen
             THEN <<[feature |-> chunk, category |-> Categorize(chunk)]>> \o rest
             ELSE rest

FallbackDecomposition(p) == FeaturesOfChunks(Split(p))

---------------------------------------------------------------------------
(* Remote decomposition provider and decompose_prompt *)

\* A JSON value as json.loads returns it: a list ("array") of dicts, a
\* non-empty dict ("object") or None ("null").
JsonArray(items) == [body |-> "array", items |-> items]
JsonObject == [body |-> "object", items |-> <<>>]
JsonNull == [body |-> "null", items |-> <<>>]

\* Tokens of message.content
Tok(kind) == [tok |-> kind, value |-> JsonNull]
FenceTok == Tok("fence")
JsonTagTok == Tok("json")
SpaceTok == Tok("whitespace")
ProseTok == Tok("prose")
ValueTok(v) == [tok |-> "value", value |-> v]

\* content.strip()
StripTokens(toks) ==
    LET keep == {i \in 1..Len(toks) : toks[i] # SpaceTok}
    IN  IF keep = {} THEN <<>>
        ELSE LET lo == CHOOSE i \in keep : \A j \in keep : i <= j
                 hi == CHOOSE i \in keep : \A j \in keep : j <= i
             IN  SubSeq(toks, lo, hi)

\* text.split(fence)[1] for a text that starts with a fence: what stands between
\* the first fence and the next one (or the end)
AfterFirstFence(toks) ==
    LET rest == Tail(toks)
        close == {i \in 1..Len(rest) : rest[i] = FenceTok}
    IN  IF close = {} THEN rest
        ELSE SubSeq(rest, 1, (CHOOSE i \in close : \A j \in close : i <= j) - 1)

\* "Clean up response if it has markdown code blocks"
CleanResponse(content) ==
    LET features_text == StripTokens(content)
    IN  IF features_text # <<>> /\ Head(features_text) = FenceTok
        THEN LET inner == AfterFirstFence(features_text)
                 untagged == IF inner # <<>> /\ Head(inner) = JsonTagTok
                             THEN Tail(inner) ELSE inner
             IN  StripTokens(untagged)
        ELSE features_text

\* json.loads succeeds exactly on a text that is one JSON value
Parsable(text) == Len(text) = 1 /\ text[1].tok = "value"

\* The remote call's answer: an exception, or a message content
Failure == [raised |-> TRUE, content |-> <<>>]
Answer(content) == [raised |-> FALSE, content |-> content]

\* the {feature, category} schema the instruction asks for
SchemaValid(v) ==
    /\ v.body = "array"
    /\ \A i \in 1..Len(v.items) : DOMAIN v.items[i] = {"feature", "category"}

\* what happened to the remote call: it raised, its answer did not parse, it
\* parsed to something else than the schema, or it parsed to the schema
ProviderOutcome(response) ==
    IF response.raised THEN "error"
    ELSE LET text == CleanResponse(response.content)
         IN  IF ~Parsable(text) THEN "unparsable"
             ELSE IF SchemaValid(text[1].value) THEN "valid"
             ELSE "schema_invalid"

\* decompose_prompt with a client: the try block, and the except branch
DecomposeWithClient(p, response) ==
    IF response.raised
    THEN [strategy |-> "heuristic", features |-> JsonArray(FallbackDecomposition(p))]
    ELSE LET text == CleanResponse(response.content)
         IN  IF Parsable(text)
             THEN [strategy |-> "llm", features |-> text[1].value]
             ELSE [strategy |-> "heuristic",
                   features |-> JsonArray(FallbackDecomposition(p))]

---------------------------------------------------------------------------
(* Numbers *)

\* x rounded to a multiple of unit, counted in units; ties go to the even
\* neighbour, as round() and the .2f format do
RoundTo(x, unit) ==
    LET q == x \div unit
        r == x % unit
    IN  IF 2 * r < unit THEN q
        ELSE IF 2 * r > unit THEN q + 1
        ELSE IF q % 2 = 0 THEN q ELSE q + 1

\* {x:.2f}, in hundredths
Fmt2(x) == RoundTo(x, Scale \div 100)
\* round(x, 2), in hundredths
Round2(x) == RoundTo(x, Scale \div 100)
\* round(x, 3), in thousandths
Round3(x) == RoundTo(x, Scale \div 1000)

STRONG_THRESHOLD == (45 * Scale) \div 100
PARTIAL_THRESHOLD == (25 * Scale) \div 100

---------------------------------------------------------------------------
(* compute_feature_similarities *)

StatusExclusive(sim_value) ==
    IF sim_value > STRONG_THRESHOLD THEN "strong"
    ELSE IF sim_value > PARTIAL_THRESHOLD THEN "partial"
    ELSE "weak"

Status(sim_value) ==
    IF sim_value >= STRONG_THRESHOLD THEN "strong"
    ELSE IF sim_value >= PARTIAL_THRESHOLD THEN "partial"
    ELSE "weak"

\* not features
Falsy(f) == f.body = "null" \/ (f.body = "array" /\ f.items = <<>>)

\* f['feature'] for f in features raises: a dict iterates over its keys, which
\* are strings; a list item may lack the key
FeatureLookupRaises(f) ==
    \/ f.body = "object"
    \/ \E i \in 1..Len(f.items) : "feature" \notin DOMAIN f.items[i]

\* the batches of similarities the embedding provider may answer with: it is
\* asked only if the lookup above succeeded on a non-empty list
SimilarityBatches(f, values) ==
    IF Falsy(f) \/ FeatureLookupRaises(f) THEN {<<>>}
    ELSE [1..Len(f.items) -> values]

Raised == [raised |-> TRUE, value |-> JsonNull]
Returned(v) == [raised |-> FALSE, value |-> v]

ComputeNoEarlyReturn(f, similarities) ==
    IF Falsy(f) \/ FeatureLookupRaises(f) THEN Raised
    ELSE Returned(JsonArray(
            [i \in 1..Len(f.items) |->
                [similarity |-> similarities[i],
                 status |-> Status(similarities[i])] @@ f.items[i]]))

Compute(f, similarities) ==
    IF Falsy(f) THEN Returned(JsonArray(<<>>))
    ELSE IF FeatureLookupRaises(f) THEN Raised
    ELSE Returned(JsonArray(
            [i \in 1..Len(f.items) |->
                [similarity |-> similarities[i],
                 status |-> Status(similarities[i])] @@ f.items[i]]))

---------------------------------------------------------------------------
(* generate_explanation *)

\* one element of explanation_parts
Part(kind, label, text, number) ==
    [part |-> kind, label |-> label, text |-> text, number |-> number]

\* [f for f in features if f['status'] == tier]
OfStatus(feats, tier) ==
    LET Test(f) == f.status = tier
    IN  SelectSeq(feats, Test)

\* sorted(..., key=similarity, reverse=True): stable, equal keys keep their order
RECURSIVE SortDescending(_)
SortDescending(feats) ==
    IF feats = <<>> THEN <<>>
    ELSE LET x == feats[Len(feats)]
             before == SortDescending(SubSeq(feats, 1, Len(feats) - 1))
             n == Cardinality({i \in 1..Len(before) : before[i].similarity >= x.similarity})
         IN  SubSeq(before, 1, n) \o <<x>> \o SubSeq(before, n + 1, Len(before))

\* sorted(..., key=similarity): stable
RECURSIVE SortAscending(_)
SortAscending(feats) ==
    IF feats = <<>> THEN <<>>
    ELSE LET x == feats[Len(feats)]
             before == SortAscending(SubSeq(feats, 1, Len(feats) - 1))
             n == Cardinality({i \in 1..Len(before) : before[i].similarity <= x.similarity})
         IN  SubSeq(before, 1, n) \o <<x>> \o SubSeq(before, n + 1, Len(before))

\* the [:3] of every section
TopCount == 3

Top(feats) == SubSeq(feats, 1, IF Len(feats) < TopCount THEN Len(feats) ELSE TopCount)

ListedAllDescending(feats, tier) == Top(SortDescending(OfStatus(feats, tier)))

\* the features a tier's section lists, in the order it lists them
Listed(feats, tier) ==
    IF tier = "weak"
    THEN Top(SortAscending(OfStatus(feats, tier)))
    ELSE Top(SortDescending(OfStatus(feats, tier)))

SectionHeading(tier) ==
    CASE tier = "strong" -> "Strong Matches (Contributing to the score):"
      [] tier = "partial" -> "Partial Matches (Somewhat contributing):"
      [] tier = "weak" -> "Weak/Missing Features (Lowering the score):"

ItemWording(tier) ==
    CASE tier = "strong" -> "is clearly present"
      [] tier = "partial" -> "is partially visible"
      [] tier = "weak" -> "is not clearly visible"

\* if strong: ... and its two siblings
Section(feats, tier) ==
    IF OfStatus(feats, tier) = <<>> THEN <<>>
    ELSE LET listed == Listed(feats, tier)
         IN  <<Part("section", SectionHeading(tier), <<>>, 0)>> \o
             [i \in 1..Len(listed) |->
                Part("item", ItemWording(tier), listed[i].feature,
                     Fmt2(listed[i].similarity))]

StrongScore == 45 * Scale
ModerateScore == 25 * Scale

HeaderExclusive(score) ==
    IF score > StrongScore
    THEN <<Part("header", "Strong Match", <<>>, Fmt2(score)),
           Part("assessment", "This high score indicates the image aligns well with the prompt.", <<>>, 0)>>
    ELSE IF score > ModerateScore
    THEN <<Part("header", "Moderate Match", <<>>, Fmt2(score)),
           Part("assessment", "This moderate score suggests some alignment with mixed results.", <<>>, 0)>>
    ELSE <<Part("header", "Weak Match", <<>>, Fmt2(score)),
           Part("assessment", "This low score indicates significant misalignment with the prompt.", <<>>, 0)>>

\* "Overall assessment based on original score"
Header(score) ==
    IF score >= StrongScore
    THEN <<Part("header", "Strong Match", <<>>, Fmt2(score)),
           Part("assessment", "This high score indicates the image aligns well with the prompt.", <<>>, 0)>>
    ELSE IF score >= ModerateScore
    THEN <<Part("header", "Moderate Match", <<>>, Fmt2(score)),
           Part("assessment", "This moderate score suggests some alignment with mixed results.", <<>>, 0)>>
    ELSE <<Part("header", "Weak Match", <<>>, Fmt2(score)),
           Part("assessment", "This low score indicates significant misalignment with the prompt.", <<>>, 0)>>

\* "Summary"
Summary(feats) ==
    <<Part("total", "identified features", <<>>, Len(feats)),
      Part("count", "are strong matches", <<>>, Len(OfStatus(feats, "strong"))),
      Part("count", "are partial matches", <<>>, Len(OfStatus(feats, "partial"))),
      Part("count", "are weak/missing", <<>>, Len(OfStatus(feats, "weak")))>>

\* the closing sentence
Closing(score) ==
    IF score >= StrongScore
    THEN <<Part("closing", "This explains the high overall match score.", <<>>, 0)>>
    ELSE IF score >= ModerateScore
    THEN <<Part("closing", "The mixed results explain the moderate overall score.", <<>>, 0)>>
    ELSE <<Part("closing", "The lack of strong matches explains the low overall score.", <<>>, 0)>>

GenerateExplanationText(feats, score) ==
    Header(score)
        \o Section(feats, "strong")
        \o Section(feats, "partial")
        \o Section(feats, "weak")
        \o Summary(feats)
        \o Closing(score)

---------------------------------------------------------------------------
(* explain_match: the value it returns *)

FinalScoreFromFeatures(score, feats) ==
    IF feats = <<>> THEN Round2(score)
    ELSE Round2(100 * feats[1].similarity)

\* 'final_score': round(original_score, 2)
FinalScore(score, feats) == Round2(score)

\* f['category'] raises when a list item lacks the key
CategoryLookupRaises(feats) ==
    \E i \in 1..Len(feats) : "category" \notin DOMAIN feats[i]

FeatureBreakdownOfListed(feats) ==
    LET listed == Top(SortDescending(feats))
    IN  [i \in 1..Len(listed) |->
            [feature |-> listed[i].feature,
             similarity |-> Round3(listed[i].similarity),
             status |-> listed[i].status,
             category |-> listed[i].category]]

\* 'feature_breakdown': one dict per f in features
FeatureBreakdown(feats) ==
    [i \in 1..Len(feats) |->
        [feature |-> feats[i].feature,
         similarity |-> Round3(feats[i].similarity),
         status |-> feats[i].status,
         category |-> feats[i].category]]

NoResult == [final_score |-> 0, feature_breakdown |-> <<>>, explanation_text |-> <<>>]

---------------------------------------------------------------------------
(* Inputs *)

\* sequences over S of length at most n
SeqsUpTo(S, n) == UNION {[1..k -> S] : k \in 0..n}

\* prompts of the requests
Prompts ==
    {<<"m","o","d","e","r","n"," ","k","i","t","c","h","e","n",","," ","s","a","g","e"," ","g","r","e","e","n"," ","c","a","b","i","n","e","t","s",","," ","p","e","n","d","a","n","t"," ","l","i","g","h","t","i","n","g">>,
     <<"M","a","r","b","l","e"," ","i","s","l","a","n","d"," ","w","i","t","h"," "," ","b","i","g"," ","s","i","n","k">>,
     <<"b","r","i","g","h","t"," ","s","u","n","n","y"," ","r","o","o","m">>,
     <<"r","e","d"," ","c","h","a","i","r",","," ","r","e","d"," ","c","h","a","i","r">>,
     <<"o","a","k"," ","a","n","d"," ","l","e","d">>,
     <<>>}

\* cosine(image, full prompt) * Scale, as the embedding provider answers
Cosines == {-3000, 24990, 24996, 25000, 44990, 44996, 45000, 46000}
PipelineCosines == {24990, 45000}

\* cosine(image, feature phrase) * Scale
SimValues == {-3000, 24999, 25000, 44999, 45000, 90000}
PipelineSimValues == {24999, 25000, 45000}

\* dicts the remote provider may put in its list
LLMItems ==
    {[feature |-> <<"m","o","d","e","r","n"," ","k","i","t","c","h","e","n">>, category |-> "style"],
     [feature |-> <<"w","o","o","d">>, category |-> "material"],
     [feature |-> <<"s","a","g","e"," ","g","r","e","e","n"," ","c","a","b","i","n","e","t","s">>, category |-> "colour"],
     [feature |-> <<"p","e","n","d","a","n","t"," ","l","i","g","h","t","i","n","g">>],
     [name |-> <<"o","p","e","n"," ","c","o","n","c","e","p","t"," ","l","a","y","o","u","t">>, category |-> "layout"]}

LLMValues ==
    {JsonArray(items) : items \in SeqsUpTo(LLMItems, MaxLLMItems)}
        \cup {JsonObject, JsonNull}

\* the ways a value comes back: bare, padded, fenced with and without the json
\* tag, and after a sentence of prose
Wrappings(v) ==
    {<<ValueTok(v)>>,
     <<SpaceTok, ValueTok(v), SpaceTok>>,
     <<FenceTok, JsonTagTok, SpaceTok, ValueTok(v), SpaceTok, FenceTok>>,
     <<FenceTok, SpaceTok, ValueTok(v), SpaceTok, FenceTok>>,
     <<ProseTok, SpaceTok, ValueTok(v)>>}

LLMResponses ==
    {Failure, Answer(<<>>)}
        \cup {Answer(c) : c \in UNION {Wrappings(v) : v \in LLMValues}}

---------------------------------------------------------------------------
(* explain_match, step by step *)

\* lines 230-246: the embeddings and the score of the full prompt
Request(prompts, cosines) ==
    /\ pc \in {"idle", "returned", "raised"}
    /\ \E p \in prompts, c \in cosines :
        /\ prompt' = p
        /\ cosine' = c
        /\ original_score' = c * 100
    /\ pc' = "scored"
    /\ llm' = "not_called"
    /\ strategy' = "none"
    /\ features' = JsonNull
    /\ explanation' = <<>>
    /\ result' = NoResult
    /\ UNCHANGED client
    /\ UNCHANGED <<storeVars, threads, serverVars>>

\* line 249: features = self.decompose_prompt(prompt)
DecomposePrompt(responses) ==
    /\ pc = "scored"
    /\ \/ /\ ~client
          /\ llm' = "not_called"
          /\ strategy' = "heuristic"
          /\ features' = JsonArray(FallbackDecomposition(prompt))
       \/ /\ client
          /\ \E response \in responses :
                LET d == DecomposeWithClient(prompt, response)
                IN  /\ llm' = ProviderOutcome(response)
                    /\ strategy' = d.strategy
                    /\ features' = d.features
    /\ pc' = "decomposed"
    /\ UNCHANGED <<client, prompt, cosine, original_score, explanation, result>>
    /\ UNCHANGED <<storeVars, threads, serverVars>>

\* line 252: features = self.compute_feature_similarities(image_embedding, features)
ComputeFeatureSimilarities(values) ==
    /\ pc = "decomposed"
    /\ \E similarities \in SimilarityBatches(features, values) :
            LET c == Compute(features, similarities)
            IN  IF c.raised
                THEN pc' = "raised" /\ UNCHANGED features
                ELSE pc' = "similarities" /\ features' = c.value
    /\ UNCHANGED <<client, prompt, cosine, original_score, llm, strategy,
                   explanation, result>>
    /\ UNCHANGED <<storeVars, threads, serverVars>>

\* line 255: explanation_text = self.generate_explanation(features, original_score)
GenerateExplanation ==
    /\ pc = "similarities"
    /\ explanation' = GenerateExplanationText(features.items, original_score)
    /\ pc' = "explained"
    /\ UNCHANGED <<client, prompt, cosine, original_score, llm, strategy,
                   features, result>>
    /\ UNCHANGED <<storeVars, threads, serverVars>>

\* lines 257-269: the returned dict
Return ==
    /\ pc = "explained"
    /\ IF CategoryLookupRaises(features.items)
       THEN pc' = "raised" /\ UNCHANGED result
       ELSE /\ pc' = "returned"
            /\ result' = [final_score |-> FinalScore(original_score, features.items),
                          feature_breakdown |-> FeatureBreakdown(features.items),
                          explanation_text |-> explanation]
    /\ UNCHANGED <<client, prompt, cosine, original_score, llm, strategy,
                   features, explanation>>
    /\ UNCHANGED <<storeVars, threads, serverVars>>

---------------------------------------------------------------------------
(* The store and the server after construction *)

\* threads of the server process that call the database at the same time
NumThreads == 2
Threads == 1..NumThreads

\* a thread that is in no database call
NoCall ==
    [op |-> "none", pc |-> "idle", login_id |-> <<>>, user_id |-> <<>>,
     image_filename |-> <<>>, next_num |-> 0, new_filename |-> <<>>,
     match_id |-> <<>>, outcome |-> "none", value |-> <<>>]

NoRequest ==
    [endpoint |-> "none", has_image |-> FALSE, has_prompt |-> FALSE,
     image_ok |-> FALSE, user_id |-> <<>>, image_filename |-> <<>>,
     has_login_id |-> FALSE, login_id |-> <<>>]

\* no response yet; calls names what the handler called before it returned
NoResponse == [status |-> 0, body |-> [none |-> TRUE], calls |-> {}]

\* what a request may change outside itself
Stored == [users |-> users, matches |-> matches, upload_folder |-> upload_folder]

\* MongoDB.__init__, lines 35-40: create_index either builds the unique index
\* or raises, and the exception is passed over
Constructed(index_outcomes) ==
    /\ unique_index \in index_outcomes
    /\ users = <<>>
    /\ matches = {}
    /\ upload_folder = {}
    /\ next_id = 0
    /\ threads = [t \in Threads |-> NoCall]
    /\ http_request = NoRequest
    /\ server_pc = "idle"
    /\ http_response = NoResponse
    /\ snapshot = Stored

---------------------------------------------------------------------------
(* The pipeline behind a server that takes one request after another *)

Init ==
    /\ client \in BOOLEAN
    /\ pc = "idle"
    /\ prompt = <<>>
    /\ cosine = 0
    /\ original_score = 0
    /\ llm = "not_called"
    /\ strategy = "none"
    /\ features = JsonNull
    /\ explanation = <<>>
    /\ result = NoResult
    /\ Constructed({TRUE})

Next ==
    \/ Request(Prompts, PipelineCosines)
    \/ DecomposePrompt(LLMResponses)
    \/ ComputeFeatureSimilarities(PipelineSimValues)
    \/ GenerateExplanation
    \/ Return

Spec == Init /\ [][Next]_vars

---------------------------------------------------------------------------
(* Scoring and narration on their own: explain_match from the point where    *)
(* the fallback has decomposed a prompt of n distinct fragments              *)

Digits == <<"1", "2", "3", "4", "5", "6", "7", "8", "9">>

\* "feature 1, feature 2, ..., feature n"
RECURSIVE NumberedPrompt(_)
NumberedPrompt(n) ==
    IF n = 0 THEN <<>>
    ELSE (IF n = 1 THEN <<>> ELSE NumberedPrompt(n - 1) \o <<","," ">>)
            \o <<"f","e","a","t","u","r","e"," ">> \o <<Digits[n]>>

NarrateInit ==
    /\ client = FALSE
    /\ pc = "decomposed"
    /\ \E n \in 0..MaxFeatures :
        /\ prompt = NumberedPrompt(n)
        /\ features = JsonArray(FallbackDecomposition(NumberedPrompt(n)))
    /\ cosine \in Cosines
    /\ original_score = cosine * 100
    /\ llm = "not_called"
    /\ strategy = "heuristic"
    /\ explanation = <<>>
    /\ result = NoResult
    /\ Constructed({TRUE})

NarrateNext ==
    \/ ComputeFeatureSimilarities(SimValues)
    \/ GenerateExplanation
    \/ Return

SpecNarrate == NarrateInit /\ [][NarrateNext]_vars

---------------------------------------------------------------------------
(* The remote call of decompose_prompt as a call and its return: the request  *)
(* goes out with no timeout argument (the client is built from the api key    *)
(* alone), and the try block goes on when create() returns or raises          *)

\* lines 41-69: self.client.chat.completions.create(...) is entered
CallProvider ==
    /\ pc = "scored"
    /\ client
    /\ pc' = "calling"
    /\ llm' = "pending"
    /\ UNCHANGED <<client, prompt, cosine, original_score, strategy, features,
                   explanation, result>>
    /\ UNCHANGED <<storeVars, threads, serverVars>>

\* create() returns a message or raises; lines 71-89 run
ProviderAnswers(responses) ==
    /\ pc = "calling"
    /\ llm = "pending"
    /\ \E response \in responses :
            LET d == DecomposeWithClient(prompt, response)
            IN  /\ llm' = ProviderOutcome(response)
                /\ strategy' = d.strategy
                /\ features' = d.features
    /\ pc' = "decomposed"
    /\ UNCHANGED <<client, prompt, cosine, original_score, explanation, result>>
    /\ UNCHANGED <<storeVars, threads, serverVars>>

\* the provider holds the connection open and never sends an answer
ProviderNeverAnswers ==
    /\ pc = "calling"
    /\ llm = "pending"
    /\ llm' = "silent"
    /\ UNCHANGED <<client, pc, prompt, cosine, original_score, strategy, features,
                   explanation, result>>
    /\ UNCHANGED <<storeVars, threads, serverVars>>

\* line 37-38: no client, the fallback is called at once
DecomposeWithoutClient ==
    /\ ~client
    /\ DecomposePrompt({})

RemoteNext ==
    \/ Request(Prompts, PipelineCosines)
    \/ DecomposeWithoutClient
    \/ CallProvider
    \/ ProviderAnswers(LLMResponses)
    \/ ProviderNeverAnswers
    \/ ComputeFeatureSimilarities(PipelineSimValues)
    \/ GenerateExplanation
    \/ Return

SpecRemote == Init /\ [][RemoteNext]_vars

---------------------------------------------------------------------------
(* Stored file names: MongoDB.save_match and _get_next_image_number          *)
(* (PostgresDB has the same two methods, line for line)                      *)

DecimalDigits == <<"0", "1", "2", "3", "4", "5", "6", "7", "8", "9">>

\* str(n) for n >= 0
RECURSIVE Decimal(_)
Decimal(n) ==
    IF n < 10 THEN <<DecimalDigits[n + 1]>>
    ELSE Decimal(n \div 10) \o <<DecimalDigits[(n % 10) + 1]>>

IsDigit(c) == \E k \in 1..10 : DecimalDigits[k] = c

\* int(s) for a text of digits
RECURSIVE DigitsValue(_)
DigitsValue(s) ==
    IF s = <<>> THEN 0
    ELSE 10 * DigitsValue(SubSeq(s, 1, Len(s) - 1))
            + ((CHOOSE k \in 1..10 : DecimalDigits[k] = s[Len(s)]) - 1)

\* c.isalnum()
IsAlnum(c) ==
    \/ IsDigit(c)
    \/ \E k \in 1..Len(UpperCase) : UpperCase[k] = c \/ LowerCase[k] = c

\* the position of the dot os.path.splitext splits at, 0 when there is none: the
\* last dot, unless only dots stand before it
ExtDot(name) ==
    LET dots == {i \in 1..Len(name) :
                    /\ name[i] = "."
                    /\ \E j \in 1..(i - 1) : name[j] # "."}
    IN  IF dots = {} THEN 0 ELSE CHOOSE i \in dots : \A j \in dots : j <= i

\* os.path.splitext(name)[0] and [1]
SplitExtRoot(name) == IF ExtDot(name) = 0 THEN name ELSE SubSeq(name, 1, ExtDot(name) - 1)
SplitExtExt(name) == IF ExtDot(name) = 0 THEN <<>> ELSE SubSeq(name, ExtDot(name), Len(name))

\* str.rstrip()
RStrip(s) ==
    LET keep == {i \in 1..Len(s) : ~IsSpace(s[i])}
    IN  IF keep = {} THEN <<>>
        ELSE SubSeq(s, 1, CHOOSE i \in keep : \A j \in keep : j <= i)

\* "Limit length"
BaseNameLimit == 30

\* lines 94-97: the cleaned base name
BaseName(image_filename) ==
    LET Kept(c) == IsAlnum(c) \/ c \in {" ", "-", "_"}
        cleaned == RStrip(SelectSeq(SplitExtRoot(image_filename), Kept))
        joined == [i \in 1..Len(cleaned) |-> IF cleaned[i] = " " THEN "_" ELSE cleaned[i]]
    IN  SubSeq(joined, 1, IF Len(joined) < BaseNameLimit THEN Len(joined) ELSE BaseNameLimit)

\* line 100: ext = os.path.splitext(image_filename)[1] or '.jpg'
Extension(image_filename) ==
    IF SplitExtExt(image_filename) = <<>> THEN <<".","j","p","g">> ELSE SplitExtExt(image_filename)

\* glob: the file name matches {user_id}_{base_name}_*.???
GlobMatches(filename, user_id, base_name) ==
    LET prefix == user_id \o <<"_">> \o base_name \o <<"_">>
    IN  /\ StartsWithAt(filename, 1, prefix)
        /\ Len(filename) - 3 > Len(prefix)
        /\ filename[Len(filename) - 3] = "."

\* lines 58-62: the number of an existing file; <<>> when the name has no
\* underscore or int() raises, else <<number>>
FileNumber(filename) ==
    LET under == {i \in 1..Len(filename) : filename[i] = "_"}
    IN  IF under = {} THEN <<>>
        ELSE LET last == CHOOSE i \in under : \A j \in under : j <= i
                 num_with_ext == SubSeq(filename, last + 1, Len(filename))
                 dots == {i \in 1..Len(num_with_ext) : num_with_ext[i] = "."}
                 num_str == IF dots = {} THEN num_with_ext
                            ELSE SubSeq(num_with_ext, 1,
                                        (CHOOSE i \in dots : \A j \in dots : i <= j) - 1)
             IN  IF num_str # <<>> /\ \A i \in 1..Len(num_str) : IsDigit(num_str[i])
                 THEN <<DigitsValue(num_str)>>
                 ELSE <<>>

\* _get_next_image_number over the files now in the upload folder
NextImageNumber(folder, user_id, base_name) ==
    LET existing_files == {f \in folder : GlobMatches(f, user_id, base_name)}
        numbers == {FileNumber(f)[1] : f \in {g \in existing_files : FileNumber(g) # <<>>}}
    IN  IF numbers = {} THEN 1
        ELSE (CHOOSE n \in numbers : \A k \in numbers : k <= n) + 1

\* line 106: new_filename
NewFilename(user_id, image_filename, next_num) ==
    user_id \o <<"_">> \o BaseName(image_filename) \o <<"_">> \o Decimal(next_num)
        \o Extension(image_filename)

---------------------------------------------------------------------------
(* MongoDB: the calls of the store, each database or file-system access a    *)
(* step of its thread                                                        *)

\* how many ObjectIds the calls may ask for before no new call starts
MaxIds == 3

\* str(ObjectId()): a fresh text without underscore
ObjectIdText(n) == <<"6","5","f">> \o Decimal(n)

\* collection.find_one({'login_id': login_id}): <<>> for None, else <<doc>>
FindOneByLogin(collection, login_id) ==
    LET hits == {i \in 1..Len(collection) : collection[i].login_id = login_id}
    IN  IF hits = {} THEN <<>>
        ELSE <<collection[CHOOSE i \in hits : \A j \in hits : i <= j]>>

\* collection.find_one({'_id': ObjectId(id)})
FindOneById(collection, id) ==
    LET hits == {i \in 1..Len(collection) : collection[i].id = id}
    IN  IF hits = {} THEN <<>>
        ELSE <<collection[CHOOSE i \in hits : \A j \in hits : i <= j]>>

\* insert_one raises DuplicateKeyError
DuplicateKey(collection, login_id) ==
    unique_index /\ FindOneByLogin(collection, login_id) # <<>>

CallReturned(call, value) == [call EXCEPT !.pc = "idle", !.outcome = "returned", !.value = value]
CallRaised(call) == [call EXCEPT !.pc = "idle", !.outcome = "raised", !.value = <<>>]

\* create_or_get_user, line 70: user = self.users.find_one({'login_id': login_id})
FindUser(t, login_ids) ==
    /\ threads[t].pc = "idle"
    /\ next_id < MaxIds
    /\ \E login_id \in login_ids :
        LET call == [NoCall EXCEPT !.op = "create_or_get_user", !.login_id = login_id]
            user == FindOneByLogin(users, login_id)
        IN  threads' = [threads EXCEPT ![t] =
                IF user # <<>> THEN CallReturned(call, user[1].id)
                ELSE [call EXCEPT !.pc = "insert_user"]]
    /\ UNCHANGED <<pipelineVars, storeVars, serverVars>>

\* lines 72-80: insert_one, find_one by the new id, _format_user
InsertUser(t) ==
    /\ threads[t].pc = "insert_user"
    /\ IF DuplicateKey(users, threads[t].login_id)
       THEN /\ threads' = [threads EXCEPT ![t] = CallRaised(@)]
            /\ UNCHANGED <<users, next_id>>
       ELSE /\ users' = Append(users, [id |-> ObjectIdText(next_id + 1),
                                       login_id |-> threads[t].login_id])
            /\ next_id' = next_id + 1
            /\ threads' = [threads EXCEPT ![t] = CallReturned(@, ObjectIdText(next_id + 1))]
    /\ UNCHANGED <<pipelineVars, unique_index, matches, upload_folder, serverVars>>

\* save_match, lines 93-106: the names and the next number, read from the folder
NameImage(t, image_filenames) ==
    /\ threads[t].pc = "idle"
    /\ next_id < MaxIds
    /\ \E i \in 1..Len(users), image_filename \in image_filenames :
        LET user_id == users[i].id
            next_num == NextImageNumber(upload_folder, user_id, BaseName(image_filename))
        IN  threads' = [threads EXCEPT ![t] =
                [NoCall EXCEPT !.op = "save_match", !.pc = "write_image",
                               !.user_id = user_id,
                               !.image_filename = image_filename,
                               !.next_num = next_num,
                               !.new_filename = NewFilename(user_id, image_filename, next_num)]]
    /\ UNCHANGED <<pipelineVars, storeVars, serverVars>>

\* lines 109-111: open(image_path, 'wb') and write
WriteImage(t) ==
    /\ threads[t].pc = "write_image"
    /\ upload_folder' = upload_folder \cup {threads[t].new_filename}
    /\ threads' = [threads EXCEPT ![t].pc = "insert_match"]
    /\ UNCHANGED <<pipelineVars, unique_index, users, matches, next_id, serverVars>>

\* the document of lines 115-125, without the fields no code path reads back
MatchDoc(id, call) ==
    [id |-> id, user_id |-> call.user_id, image_filename |-> call.image_filename,
     stored_filename |-> call.new_filename]

\* lines 127-128: insert_one and the returned id
InsertMatch(t) ==
    /\ threads[t].pc = "insert_match"
    /\ matches' = matches \cup {MatchDoc(ObjectIdText(next_id + 1), threads[t])}
    /\ next_id' = next_id + 1
    /\ threads' = [threads EXCEPT ![t] = CallReturned(@, ObjectIdText(next_id + 1))]
    /\ UNCHANGED <<pipelineVars, unique_index, users, upload_folder, serverVars>>

\* delete_match, lines 152-153 and 164: find_one by id; False when there is none
FindMatch(t) ==
    /\ threads[t].pc = "idle"
    /\ \E n \in 1..next_id :
        LET call == [NoCall EXCEPT !.op = "delete_match", !.match_id = ObjectIdText(n)]
            found == {m \in matches : m.id = ObjectIdText(n)}
        IN  threads' = [threads EXCEPT ![t] =
                IF found = {} THEN CallReturned(call, <<"F","a","l","s","e">>)
                ELSE [call EXCEPT !.pc = "remove_image",
                                  !.new_filename = (CHOOSE m \in found : TRUE).stored_filename]]
    /\ UNCHANGED <<pipelineVars, storeVars, serverVars>>

\* lines 155-157: os.remove when the file exists
RemoveImage(t) ==
    /\ threads[t].pc = "remove_image"
    /\ upload_folder' = upload_folder \ {threads[t].new_filename}
    /\ threads' = [threads EXCEPT ![t].pc = "delete_document"]
    /\ UNCHANGED <<pipelineVars, unique_index, users, matches, next_id, serverVars>>

\* lines 160-161: delete_one and return True
DeleteDocument(t) ==
    /\ threads[t].pc = "delete_document"
    /\ matches' = {m \in matches : m.id # threads[t].match_id}
    /\ threads' = [threads EXCEPT ![t] = CallReturned(@, <<"T","r","u","e">>)]
    /\ UNCHANGED <<pipelineVars, unique_index, users, upload_folder, next_id, serverVars>>

\* login ids and upload names of the calls
LoginIds == {<<"a","n","n">>, <<"b","o","b">>}
ImageFilenames == {<<"c","a","t",".","j","p","g">>, <<"c","a","t",".","j","p","e","g">>}

StoreInit ==
    /\ client = FALSE
    /\ pc = "idle"
    /\ prompt = <<>>
    /\ cosine = 0
    /\ original_score = 0
    /\ llm = "not_called"
    /\ strategy = "none"
    /\ features = JsonNull
    /\ explanation = <<>>
    /\ result = NoResult
    /\ Constructed(BOOLEAN)

StoreNext ==
    \E t \in Threads :
        \/ FindUser(t, LoginIds)
        \/ InsertUser(t)
        \/ NameImage(t, ImageFilenames)
        \/ WriteImage(t)
        \/ InsertMatch(t)
        \/ FindMatch(t)
        \/ RemoveImage(t)
        \/ DeleteDocument(t)

SpecStore == StoreInit /\ [][StoreNext]_vars

---------------------------------------------------------------------------
(* server.py: the handlers of /api/auth/login, /api/match and /api/explain,  *)
(* one request after another                                                 *)

Responded(status, body, calls) == [status |-> status, body |-> body, calls |-> calls]

ErrorBody(message) == [error |-> message]

\* 'image' in request.files only: the check of the prompt left out
ValidatedImageOnly(req) == req.has_image

\* lines 89-92 and 124-127: both parts of the form are there
Validated(req) == req.has_image /\ req.has_prompt

\* the message of the 400 response
ValidationError(req) ==
    IF ~req.has_image THEN ErrorBody("No image file provided")
    ELSE ErrorBody("No prompt provided")

\* the handler is in no request
ServerFree == server_pc \in {"idle", "responded"}

\* a call of explain_match starts with locals of its own
FreshExplainMatch ==
    /\ pc' = "idle"
    /\ prompt' = <<>>
    /\ cosine' = 0
    /\ original_score' = 0
    /\ llm' = "not_called"
    /\ strategy' = "none"
    /\ features' = JsonNull
    /\ explanation' = <<>>
    /\ result' = NoResult
    /\ UNCHANGED client

\* login, lines 50-70, with create_or_get_user run to its end
Login(bodies) ==
    /\ ServerFree
    /\ next_id < MaxIds
    /\ \E body \in bodies :
        LET login_id == Strip(body.login_id)
            user == FindOneByLogin(users, login_id)
            new_id == ObjectIdText(next_id + 1)
        IN  /\ http_request' = [NoRequest EXCEPT !.endpoint = "login",
                                                 !.has_login_id = body.has_login_id,
                                                 !.login_id = body.login_id]
            /\ IF ~body.has_login_id
               THEN /\ http_response' = Responded(400, ErrorBody("Login ID is required"), {})
                    /\ UNCHANGED <<users, next_id>>
               ELSE IF login_id = <<>>
               THEN /\ http_response' = Responded(400, ErrorBody("Login ID cannot be empty"), {})
                    /\ UNCHANGED <<users, next_id>>
               ELSE IF user # <<>>
               THEN /\ http_response' = Responded(200, [message |-> "Login successful",
                                                        user |-> user[1].id],
                                                  {"create_or_get_user"})
                    /\ UNCHANGED <<users, next_id>>
               ELSE /\ users' = Append(users, [id |-> new_id, login_id |-> login_id])
                    /\ next_id' = next_id + 1
                    /\ http_response' = Responded(200, [message |-> "Login successful",
                                                        user |-> new_id],
                                                  {"create_or_get_user"})
    /\ server_pc' = "responded"
    /\ snapshot' = Stored
    /\ UNCHANGED <<pipelineVars, unique_index, matches, upload_folder, threads>>

\* match_image_with_prompt, lines 86-118
Match(requests, cosines) ==
    /\ ServerFree
    /\ \E req \in requests :
        /\ http_request' = [req EXCEPT !.endpoint = "match"]
        /\ IF ~Validated(req)
           THEN http_response' = Responded(400, ValidationError(req), {})
           ELSE IF ~req.image_ok
           THEN http_response' =
                    Responded(500, ErrorBody("Failed to process image and prompt"),
                              {"Image.open"})
           ELSE \/ \E c \in cosines :
                    http_response' = Responded(200, [similarity |-> Fmt2(c * 100)],
                                               {"Image.open", "model"})
                \/ http_response' =
                    Responded(500, ErrorBody("Failed to process image and prompt"),
                              {"Image.open", "model"})
    /\ server_pc' = "responded"
    /\ snapshot' = Stored
    /\ UNCHANGED <<pipelineVars, storeVars, threads>>

\* explain_match of server.py, lines 121-131: the checks of the form
ReceiveExplain(requests) ==
    /\ ServerFree
    /\ next_id < MaxIds
    /\ \E req \in requests :
        /\ http_request' = [req EXCEPT !.endpoint = "explain"]
        /\ IF ~Validated(req)
           THEN /\ http_response' = Responded(400, ValidationError(req), {})
                /\ server_pc' = "responded"
           ELSE /\ http_response' = NoResponse
                /\ server_pc' = "explaining"
    /\ FreshExplainMatch
    /\ snapshot' = Stored
    /\ UNCHANGED <<storeVars, threads>>

\* lines 134-135 and 159-163: Image.open raises on the uploaded bytes
OpenImageFails ==
    /\ server_pc = "explaining"
    /\ pc = "idle"
    /\ ~http_request.image_ok
    /\ http_response' = Responded(500, ErrorBody("Failed to explain match"), {"Image.open"})
    /\ server_pc' = "responded"
    /\ UNCHANGED <<pipelineVars, storeVars, threads, http_request, snapshot>>

\* explainable_matcher.py, lines 230-246: the model raises while encoding
EncodeRaises ==
    /\ pc = "idle"
    /\ pc' = "raised"
    /\ UNCHANGED <<client, prompt, cosine, original_score, llm, strategy, features,
                   explanation, result>>
    /\ UNCHANGED <<storeVars, threads, serverVars>>

\* prompts, cosines, provider responses and feature similarities of the requests
ServerPrompts == {<<"o","a","k"," ","a","n","d"," ","l","e","d">>, <<>>}
ServerCosines == {45000}
ServerLLMResponses ==
    {Failure,
     Answer(<<ValueTok(JsonArray(<<[feature |-> <<"p","e","n","d","a","n","t"," ","l","i","g","h","t","i","n","g">>]>>))>>)}
ServerSimValues == {45000}

\* line 138: result = explainer.explain_match(image, prompt_text), a step at a time
ExplainMatch ==
    /\ server_pc = "explaining"
    /\ http_request.image_ok
    /\ \/ pc = "idle" /\ Request(ServerPrompts, ServerCosines)
       \/ EncodeRaises
       \/ DecomposePrompt(ServerLLMResponses)
       \/ ComputeFeatureSimilarities(ServerSimValues)
       \/ GenerateExplanation
       \/ Return

\* lines 159-163: what explain_match raised is answered with a 500
ExplainRaises ==
    /\ server_pc = "explaining"
    /\ pc = "raised"
    /\ http_response' = Responded(500, ErrorBody("Failed to explain match"),
                                  {"Image.open", "explain_match"})
    /\ server_pc' = "responded"
    /\ UNCHANGED <<pipelineVars, storeVars, threads, http_request, snapshot>>

\* explain_match returned or raised
ExplainEnded(p) == p \in {"returned", "raised"}

\* line 138 returned: the handler goes on to line 141
ExplainReturned(p) == p = "returned"

\* what save_match may do: store the match, raise at the write of the file, or
\* raise at insert_one after the file was written
SaveOutcomes == {"saved", "write_raised", "insert_raised"}

\* jsonify(result), with the two keys of lines 153-154 when the match was saved
ResultBody(saved, match_id) ==
    [final_score |-> result.final_score,
     feature_breakdown |-> result.feature_breakdown,
     explanation_text |-> result.explanation_text,
     saved |-> saved, match_id |-> match_id]

\* lines 141-157 and 159-163: the match is saved for a known user, and the
\* result is returned; an exception of save_match is answered with a 500
SaveAndRespond(outcomes) ==
    /\ server_pc = "explaining"
    /\ ExplainReturned(pc)
    /\ LET user_id == http_request.user_id
           user == FindOneById(users, user_id)
           base_calls == {"Image.open", "explain_match"}
           next_num == NextImageNumber(upload_folder, user_id,
                                       BaseName(http_request.image_filename))
           new_filename == NewFilename(user_id, http_request.image_filename, next_num)
           match_id == ObjectIdText(next_id + 1)
           call == [NoCall EXCEPT !.user_id = user_id,
                                  !.image_filename = http_request.image_filename,
                                  !.new_filename = new_filename]
       IN  IF user_id = <<>>
           THEN /\ http_response' = Responded(200, ResultBody(FALSE, <<>>), base_calls)
                /\ UNCHANGED storeVars
           ELSE IF user = <<>>
           THEN /\ http_response' = Responded(200, ResultBody(FALSE, <<>>),
                                              base_calls \cup {"get_user_by_id"})
                /\ UNCHANGED storeVars
           ELSE \E outcome \in outcomes :
                /\ upload_folder' = IF outcome = "write_raised" THEN upload_folder
                                    ELSE upload_folder \cup {new_filename}
                /\ IF outcome = "saved"
                   THEN /\ matches' = matches \cup {MatchDoc(match_id, call)}
                        /\ next_id' = next_id + 1
                        /\ http_response' =
                            Responded(200, ResultBody(TRUE, match_id),
                                      base_calls \cup {"get_user_by_id", "save_match"})
                   ELSE /\ UNCHANGED <<matches, next_id>>
                        /\ http_response' =
                            Responded(500, ErrorBody("Failed to explain match"),
                                      base_calls \cup {"get_user_by_id", "save_match"})
                /\ UNCHANGED <<unique_index, users>>
    /\ server_pc' = "responded"
    /\ UNCHANGED <<pipelineVars, threads, http_request, snapshot>>

\* bodies of the login requests
LoginBodies ==
    {[has_login_id |-> FALSE, login_id |-> <<>>],
     [has_login_id |-> TRUE, login_id |-> <<" ","a","n","n"," ">>],
     [has_login_id |-> TRUE, login_id |-> <<" "," ">>]}

\* forms of the match and explain requests
Forms ==
    {[NoRequest EXCEPT !.has_image = i, !.has_prompt = p, !.image_ok = ok,
                       !.user_id = u, !.image_filename = <<"c","a","t",".","j","p","e","g">>] :
        i \in BOOLEAN, p \in BOOLEAN, ok \in BOOLEAN,
        u \in {<<>>, ObjectIdText(1), <<"n","o","b","o","d","y">>}}

ServerNext ==
    \/ Login(LoginBodies)
    \/ Match(Forms, ServerCosines)
    \/ ReceiveExplain(Forms)
    \/ OpenImageFails
    \/ ExplainMatch
    \/ ExplainRaises
    \/ SaveAndRespond(SaveOutcomes)

SpecServer == Init /\ [][ServerNext]_vars

---------------------------------------------------------------------------
(* Properties *)

\* explain_match has called decompose_prompt in the current request
Decomposed == pc \in {"decomposed", "similarities", "explained", "returned", "raised"}
\* compute_feature_similarities has returned in the current request
Scored == pc \in {"similarities", "explained", "returned"}
\* generate_explanation has returned in the current request
Explained == pc \in {"explained", "returned"}

\* C1: the final_score explain_match returns is the full-prompt cosine times 100,
\* rounded to two decimals, whatever the decomposition gave; the score computed
\* before the decomposition is not changed by any later step.
C1_FinalScoreFixedByFullPrompt ==
    /\ pc # "idle" => original_score = cosine * 100
    /\ pc = "returned" => result.final_score = RoundTo(cosine * 100, Scale \div 100)

C1_Witness ==
    /\ pc = "returned"
    /\ llm = "unparsable"
    /\ strategy = "heuristic"
    /\ result.feature_breakdown # <<>>
    /\ result.final_score = 4500

\* C2: after any failure of the remote decomposition provider (the call raised,
\* the answer did not parse, or it parsed to something without the
\* {feature, category} schema) decompose_prompt returned the heuristic strategy's
\* features and explain_match does not raise.
C2_ProviderFailureRecovered ==
    llm \in {"error", "unparsable", "schema_invalid"} =>
        /\ strategy = "heuristic"
        /\ pc # "raised"

Rank(status) == CASE status = "weak" -> 0 [] status = "partial" -> 1 [] status = "strong" -> 2

\* C3: every scored feature is strong when its similarity is at least 0.45,
\* partial when it is at least 0.25 and below 0.45, weak otherwise; a larger
\* similarity never has a lower tier.
C3_StatusFromSimilarity ==
    Scored =>
        \A i \in 1..Len(features.items) :
            LET f == features.items[i]
            IN  /\ 100 * f.similarity >= 45 * Scale => f.status = "strong"
                /\ (100 * f.similarity >= 25 * Scale /\ 100 * f.similarity < 45 * Scale)
                        => f.status = "partial"
                /\ 100 * f.similarity < 25 * Scale => f.status = "weak"
                /\ \A j \in 1..Len(features.items) :
                        f.similarity <= features.items[j].similarity
                            => Rank(f.status) <= Rank(features.items[j].status)

C3_Witness ==
    /\ pc = "similarities"
    /\ \E i, j, k \in 1..Len(features.items) :
        /\ 100 * features.items[i].similarity = 45 * Scale
        /\ features.items[i].status = "strong"
        /\ 100 * features.items[j].similarity = 25 * Scale
        /\ features.items[j].status = "partial"
        /\ 100 * features.items[k].similarity < 25 * Scale
        /\ features.items[k].status = "weak"

\* C4: the header is labelled Strong Match for a score of at least 45, Moderate
\* Match for a score of at least 25 and below 45, Weak Match below 25, and the
\* closing sentence is the one of the same tier.
C4_HeaderAndClosingTier ==
    Explained =>
        LET header == explanation[1]
            closing == explanation[Len(explanation)]
        IN  /\ header.part = "header"
            /\ closing.part = "closing"
            /\ original_score >= 45 * Scale =>
                    /\ header.label = "Strong Match"
                    /\ closing.label = "This explains the high overall match score."
            /\ (original_score >= 25 * Scale /\ original_score < 45 * Scale) =>
                    /\ header.label = "Moderate Match"
                    /\ closing.label = "The mixed results explain the moderate overall score."
            /\ original_score < 25 * Scale =>
                    /\ header.label = "Weak Match"
                    /\ closing.label = "The lack of strong matches explains the low overall score."

C4_Witness ==
    /\ pc = "explained"
    /\ original_score = 25 * Scale
    /\ explanation[1].label = "Moderate Match"
    /\ explanation[1].number = 2500

\* the positions of the scored features of a tier
Members(tier) == {i \in 1..Len(features.items) : features.items[i].status = tier}

\* the item lines of a tier's section, in the order of the text
ItemsOf(tier) ==
    LET Test(p) == p.part = "item" /\ p.label = ItemWording(tier)
    IN  SelectSeq(explanation, Test)

\* the position of the scored feature an item line names
Named(item) == CHOOSE i \in 1..Len(features.items) : features.items[i].feature = item.text

\* C5: a tier's section is in the text exactly when the tier has a feature; it
\* lists min(3, size of the tier) distinct features of the tier, by descending
\* similarity (ascending for the weak tier), and no feature left out ranks
\* before a listed one.
C5_SectionsListTopThree ==
    Explained =>
        \A tier \in {"strong", "partial", "weak"} :
            LET listed == ItemsOf(tier)
                before(a, b) == IF tier = "weak" THEN a <= b ELSE a >= b
                sim(i) == features.items[i].similarity
            IN  /\ (\E n \in 1..Len(explanation) :
                        /\ explanation[n].part = "section"
                        /\ explanation[n].label = SectionHeading(tier))
                     <=> Members(tier) # {}
                /\ Len(listed) =
                     (IF Cardinality(Members(tier)) < 3
                      THEN Cardinality(Members(tier)) ELSE 3)
                /\ \A a \in 1..Len(listed) : Named(listed[a]) \in Members(tier)
                /\ \A a, b \in 1..Len(listed) :
                        a < b =>
                            /\ Named(listed[a]) # Named(listed[b])
                            /\ before(sim(Named(listed[a])), sim(Named(listed[b])))
                /\ \A m \in Members(tier) :
                        (\A a \in 1..Len(listed) : Named(listed[a]) # m) =>
                            \A a \in 1..Len(listed) : before(sim(Named(listed[a])), sim(m))

C5_Witness ==
    /\ pc = "explained"
    /\ Cardinality(Members("weak")) > 3
    /\ \E i, j \in Members("weak") :
            features.items[i].similarity < features.items[j].similarity
    /\ Len(ItemsOf("weak")) = 3

\* C6: when the decomposition gave no feature, explain_match does not raise, the
\* scored list and the feature_breakdown are empty, and the text is the header,
\* the summary with a total and three tier counts of 0, and the closing
\* sentence, with no tier section.
C6_ZeroFeatures ==
    (Decomposed /\ Falsy(features)) =>
        /\ pc # "raised"
        /\ Scored => features = JsonArray(<<>>)
        /\ Explained =>
            /\ Len(explanation) = 7
            /\ explanation[1].part = "header"
            /\ explanation[2].part = "assessment"
            /\ explanation[3].part = "total" /\ explanation[3].number = 0
            /\ \A n \in 4..6 : explanation[n].part = "count" /\ explanation[n].number = 0
            /\ explanation[7].part = "closing"
        /\ pc = "returned" =>
            /\ result.feature_breakdown = <<>>
            /\ result.explanation_text = explanation

C6_Witness ==
    /\ pc = "returned"
    /\ prompt = <<"o","a","k"," ","a","n","d"," ","l","e","d">>
    /\ strategy = "heuristic"
    /\ result.feature_breakdown = <<>>
    /\ Len(result.explanation_text) = 7

\* C7: every feature decompose_prompt returned, and every entry of the returned
\* feature_breakdown, has a category of the closed set.
C7_CategoryInClosedSet ==
    /\ Decomposed =>
        \A i \in 1..Len(features.items) :
            /\ "category" \in DOMAIN features.items[i]
            /\ features.items[i].category \in Categories
    /\ pc = "returned" =>
        \A i \in 1..Len(result.feature_breakdown) :
            result.feature_breakdown[i].category \in Categories

\* C8: no two features of one decomposition result have the same phrase; stated
\* for the results the heuristic strategy builds from the prompt, where a
\* fragment the prompt repeats is to be returned once.
C8_NoDuplicatePhrases ==
    (Decomposed /\ strategy = "heuristic") =>
        \A i, j \in 1..Len(features.items) :
            i # j => features.items[i].feature # features.items[j].feature

\* C9: every phrase decompose_prompt returned is non-empty, has no leading or
\* trailing whitespace and is longer than 5 characters.
C9_PhrasesTrimmedAndLong ==
    Decomposed =>
        \A i \in 1..Len(features.items) :
            /\ "feature" \in DOMAIN features.items[i]
            /\ features.items[i].feature # <<>>
            /\ Strip(features.items[i].feature) = features.items[i].feature
            /\ Len(features.items[i].feature) > 5

HasDelimiter(p) == \E i \in 1..Len(p) : DelimiterAt(p, i) > 0

HasKeyword(p) ==
    AnyWordIn(StyleWords \cup MaterialWords \cup LightingWords \cup LayoutWords
                \cup FixtureWords, Lower(p))

\* C10: for a prompt longer than 10 characters that holds a delimiter or a
\* category keyword, decompose_prompt returned at least one feature.
C10_NonTrivialPromptYieldsFeature ==
    (Decomposed /\ Len(prompt) > 10 /\ (HasDelimiter(prompt) \/ HasKeyword(prompt))) =>
        /\ features.body = "array"
        /\ Len(features.items) >= 1

C15_BreakdownFollowsDecomposition ==
    LET decomposed == FallbackDecomposition(prompt)
    IN  /\ Scored =>
            /\ Len(features.items) = Len(decomposed)
            /\ \A i \in 1..Len(decomposed) :
                /\ DOMAIN features.items[i] = {"feature", "category", "similarity", "status"}
                /\ features.items[i].feature = decomposed[i].feature
                /\ features.items[i].category = decomposed[i].category
        /\ pc = "returned" =>
            /\ Len(result.feature_breakdown) = Len(decomposed)
            /\ \A i \in 1..Len(decomposed) :
                /\ result.feature_breakdown[i].feature = decomposed[i].feature
                /\ result.feature_breakdown[i].category = decomposed[i].category
                /\ result.feature_breakdown[i].status = features.items[i].status
                /\ result.feature_breakdown[i].similarity * (Scale \div 1000)
                        - features.items[i].similarity \in -50..50

C15_Witness ==
    /\ pc = "returned"
    /\ Len(result.feature_breakdown) > 3
    /\ result.feature_breakdown[1].similarity < result.feature_breakdown[2].similarity
    /\ result.feature_breakdown[1].feature = <<"f","e","a","t","u","r","e"," ","1">>
    /\ Len(ItemsOf("weak")) = 3

\* C18: a header that prints 45.00 or more is labelled Strong Match, and one
\* that prints 25.00 or more is not labelled Weak Match.
C18_LabelAgreesWithPrintedScore ==
    Explained =>
        /\ explanation[1].number >= 4500 => explanation[1].label = "Strong Match"
        /\ explanation[1].number >= 2500 => explanation[1].label # "Weak Match"

\* C16: no two match records that exist at the same time share a stored
\* filename, after any interleaving of save_match and delete_match calls and for
\* any upload filename and extension.
C16_StoredFilenamesDistinct ==
    \A m1 \in matches, m2 \in matches :
        m1.id # m2.id => m1.stored_filename # m2.stored_filename

\* C17: at most one user exists per login_id, and no create_or_get_user call
\* raises: each returns the id of the user of its login_id.
C17_OneUserPerLoginNoRaise ==
    /\ \A i \in 1..Len(users), j \in 1..Len(users) :
            users[i].login_id = users[j].login_id => i = j
    /\ \A t \in Threads :
            threads[t].op = "create_or_get_user" /\ threads[t].pc = "idle" =>
                /\ threads[t].outcome = "returned"
                /\ \E i \in 1..Len(users) :
                    /\ users[i].login_id = threads[t].login_id
                    /\ users[i].id = threads[t].value

\* C12: a /api/match or /api/explain request without the image or without the
\* prompt is answered with 400, and the handler has called nothing before it:
\* no image decoding, no model, no explain_match (so no embedding and no
\* decomposition), and the collections and the upload folder are as they were.
C12_MalformedRejectedFirst ==
    (/\ server_pc = "responded"
     /\ http_request.endpoint \in {"match", "explain"}
     /\ ~(http_request.has_image /\ http_request.has_prompt))
        => /\ http_response.status = 400
           /\ http_response.calls = {}
           /\ http_request.endpoint = "explain" =>
                pc = "idle" /\ llm = "not_called" /\ strategy = "none"
           /\ Stored = snapshot

C12_Witness ==
    /\ server_pc = "responded"
    /\ http_request.endpoint = "explain"
    /\ http_request.has_image /\ ~http_request.has_prompt
    /\ http_request.user_id = ObjectIdText(1)
    /\ Len(users) = 1
    /\ matches # {}
    /\ http_response.status = 400

\* C13: when explain_match returned its result and save_match then fails, the
\* caller of /api/explain still gets the result.
C13_ResultSurvivesSaveFailure ==
    (/\ server_pc = "responded"
     /\ http_request.endpoint = "explain"
     /\ pc = "returned")
        => /\ http_response.status = 200
           /\ http_response.body.final_score = result.final_score
           /\ http_response.body.feature_breakdown = result.feature_breakdown
           /\ http_response.body.explanation_text = result.explanation_text

\* the request got past the checks of the form and the image could not be
\* decoded or the model raised while encoding
InferenceFailed ==
    /\ server_pc = "responded"
    /\ http_request.endpoint = "explain"
    /\ Validated(http_request)
    /\ \/ ~http_request.image_ok
       \/ pc = "raised" /\ strategy = "none"

\* C14: an inference failure in a /api/explain request is answered with a
\* request-level error (500), nothing is saved for it, and the stored users,
\* matches and files are what they were when the request came in.
C14_InferenceFailureIsLocal ==
    InferenceFailed
        => /\ http_response.status = 500
           /\ "save_match" \notin http_response.calls
           /\ Stored = snapshot

C14_Witness ==
    /\ InferenceFailed
    /\ http_request.image_ok
    /\ http_request.user_id = ObjectIdText(1)
    /\ Len(users) = 1
    /\ matches # {}

====
